---- MODULE Spec2Model ----
(***************************************************************************)
(* Model of check.py, the leaderboard monitor: a run loads the persisted   *)
(* state, scans every bookmarked URL for the requested model names (static *)
(* fetch with a dynamic fallback), merges the scan into the accumulated    *)
(* results, diffs against the previous state and saves.  Runs follow one   *)
(* another and communicate through the state file only.                    *)
(*                                                                         *)
(* A page text is abstracted to the set of model names whose pattern       *)
(* matches it; the last_check timestamp of the state file is left out (no  *)
(* code path reads it).                                                    *)
(***************************************************************************)
EXTENDS Integers, Sequences, FiniteSets, TLC

\* ---------------------------------------------------------------- bounds
\* the longest bookmarks list and the most -m options of a run
MaxUrls == 2
MaxModels == 2

\* in the order Python's sorted() gives (code point order)
ModelOrder == <<"Claude 4 Opus", "GPT 5">>

Urls == {"https://a.test", "https://b.test"}
Models == {ModelOrder[i] : i \in DOMAIN ModelOrder}

\* sequences over S of length lo..hi
SeqsOf(S, lo, hi) == UNION {[1..n -> S] : n \in lo..hi}

\* the hrefs of the Leaderboards folder (a link may be bookmarked twice)
UrlLists == SeqsOf(Urls, 0, MaxUrls)
\* the values of the repeated -m option; the empty list is "none supplied"
ModelLists == SeqsOf(Models, 0, MaxModels)

\* ---------------------------------------------------------------- helpers
Range(s) == {s[i] : i \in DOMAIN s}

EmptyMap == [u \in {} |-> <<>>]

Rank(m) == CHOOSE i \in DOMAIN ModelOrder : ModelOrder[i] = m

\* sorted(S) for a set of model names
RECURSIVE sorted(_)
sorted(S) ==
    IF S = {} THEN <<>>
    ELSE LET m == CHOOSE x \in S : \A y \in S : Rank(x) <= Rank(y)
         IN <<m>> \o sorted(S \ {m})

\* patterns kept as a list: one entry per -m option
DictKeysRepeated(s) == s

\* the keys of {m: ... for m in cli_models}: first occurrences, in order
RECURSIVE DictKeys(_)
DictKeys(s) ==
    IF s = <<>> THEN <<>>
    ELSE LET front == DictKeys(SubSeq(s, 1, Len(s) - 1))
             last == s[Len(s)]
         IN IF last \in Range(front) THEN front ELSE Append(front, last)

\* dict.get(key, default)
Get(d, k, default) == IF k \in DOMAIN d THEN d[k] ELSE default

\* ---------------------------------------------------------------- values
None == [isNone |-> TRUE, results |-> EmptyMap]
StateOf(r) == [isNone |-> FALSE, results |-> r]

StaticErrors == {"ConnectionError"}
\* the statement of check_url_for_models_dynamic that raises
DynStages == {"launch", "new_page", "goto", "wait_for_load_state", "content"}

StaticOutcomes ==
    [kind : {"error"}, msg : StaticErrors] \cup [kind : {"text"}, text : SUBSET Models]
DynamicOutcomes ==
    [kind : {"error"}, stage : DynStages] \cup [kind : {"text"}, text : SUBSET Models]

\* ---------------------------------------------------------------- state
VARIABLES
    stateFile,      \* leaderboard_state.json: [kind, results]
    pc,             \* where the process is
    old_state,      \* main: old_state
    old_results,    \* main: old_results
    cli_models,     \* main: cli_models (args.model)
    model_patterns, \* main: the keys of model_patterns, in dict order
    dynamic,        \* main: args.dynamic
    urls,           \* main: urls
    idx,            \* position of the for loop in urls
    current_scan,   \* main: current_scan
    attempts,       \* the fetches of the latest check_url_for_models call
    errorLines,     \* the URLs main printed an [ERROR] line for
    openBrowsers,   \* browser instances launched and not yet closed
    merged_results, \* main: merged_results
    changes,        \* main: changes
    warnings,       \* warning lines printed by load_state / save_state
    report,         \* what print_changes printed
    folderFound,    \* the bookmarks file of the latest run has a Leaderboards folder
    pat_name,       \* build_pattern: model_name, as a sequence of characters
    pat_text,       \* the text the pattern is searched in
    pat_kind,       \* how pat_text was made from pat_name
    pat_match       \* pattern.search(text) found a match

vars == <<stateFile, pc, old_state, old_results, cli_models, model_patterns, dynamic,
          urls, idx, current_scan, attempts, errorLines, openBrowsers, merged_results,
          changes, warnings, report, folderFound, pat_name, pat_text, pat_kind,
          pat_match>>

patternVars == <<pat_name, pat_text, pat_kind, pat_match>>

\* no pattern is under study
PatternIdle ==
    /\ pat_name = <<>>
    /\ pat_text = <<>>
    /\ pat_kind = "none"
    /\ pat_match = FALSE

NoChanges ==
    [first_run |-> FALSE, new_urls |-> {}, removed_urls |-> {},
     model_changes |-> [u \in {} |-> [added |-> {}, removed |-> {}]]]

Init ==
    /\ stateFile = [kind |-> "missing", results |-> EmptyMap]
    /\ pc = "idle"
    /\ old_state = None
    /\ old_results = EmptyMap
    /\ cli_models = <<>>
    /\ model_patterns = <<>>
    /\ dynamic = FALSE
    /\ urls = <<>>
    /\ idx = 1
    /\ current_scan = EmptyMap
    /\ attempts = <<>>
    /\ errorLines = {}
    /\ openBrowsers = 0
    /\ merged_results = EmptyMap
    /\ changes = NoChanges
    /\ warnings = {}
    /\ report = <<>>
    /\ folderFound = TRUE
    /\ PatternIdle


\* ---------------------------------------------------------------- scanning
\* pattern.search(text): the text mentions the model
Search(model_name, text) == model_name \in text

\* the found_models loop shared by the static and the dynamic check
FoundModels(patterns, text) == SelectSeq(patterns, LAMBDA m : Search(m, text))

check_url_for_models_static(url, patterns, outcome) ==
    IF outcome.kind = "error"
    THEN [error |-> outcome.msg]
    ELSE [found |-> FoundModels(patterns, outcome.text)]

\* a Playwright exit that leaves the browsers of the block running
PlaywrightExitLeaks(before, now) == now

\* leaving `with sync_playwright()`: the Playwright driver is stopped and takes
\* down every browser launched through it, on the normal and the exception exit
PlaywrightExit(before, now) == before

\* [res, open]: the result and the number of open browsers afterwards
check_url_for_models_dynamic(url, patterns, outcome, open) ==
    LET launched == outcome.kind = "text" \/ outcome.stage # "launch"
        afterLaunch == IF launched THEN open + 1 ELSE open
        \* browser.close() is reached only when nothing raised
        afterClose == IF outcome.kind = "text" THEN afterLaunch - 1 ELSE afterLaunch
        afterWith == PlaywrightExit(open, afterClose)
    IN  [res |-> IF outcome.kind = "error"
                 THEN [error |-> outcome.stage]
                 ELSE [found |-> FoundModels(patterns, outcome.text)],
         open |-> afterWith]

IsError(res) == "error" \in DOMAIN res

\* a fallback on a failed static fetch only
NeedsDynamicOnError(result) == IsError(result)

\* "error" in result or not result["found"]
NeedsDynamic(result) == IsError(result) \/ result.found = <<>>

\* a fallback that keeps the result of a static fetch that did not fail
check_url_for_modelsKeepsStatic(url, patterns, use_dynamic, st, dy, open) ==
    LET dyn == check_url_for_models_dynamic(url, patterns, dy, open)
        result == check_url_for_models_static(url, patterns, st)
    IN  IF use_dynamic
        THEN [res |-> dyn.res, open |-> dyn.open,
              log |-> <<[mode |-> "dynamic", res |-> dyn.res]>>]
        ELSE IF NeedsDynamic(result)
        THEN [res |-> IF IsError(result) THEN dyn.res ELSE result, open |-> dyn.open,
              log |-> <<[mode |-> "static", res |-> result],
                        [mode |-> "dynamic", res |-> dyn.res]>>]
        ELSE [res |-> result, open |-> open,
              log |-> <<[mode |-> "static", res |-> result]>>]

\* [res, open, log]: log lists the fetches made, in order
check_url_for_models(url, patterns, use_dynamic, st, dy, open) ==
    LET dyn == check_url_for_models_dynamic(url, patterns, dy, open)
        result == check_url_for_models_static(url, patterns, st)
    IN  IF use_dynamic
        THEN [res |-> dyn.res, open |-> dyn.open,
              log |-> <<[mode |-> "dynamic", res |-> dyn.res]>>]
        ELSE IF NeedsDynamic(result)
        THEN [res |-> dyn.res, open |-> dyn.open,
              log |-> <<[mode |-> "static", res |-> result],
                        [mode |-> "dynamic", res |-> dyn.res]>>]
        ELSE [res |-> result, open |-> open,
              log |-> <<[mode |-> "static", res |-> result]>>]

\* the outcomes of the dynamic fetch that a call can meet: all of them when it
\* makes one, a single unread one when it makes none
DynamicFor(url, patterns, use_dynamic, st) ==
    IF use_dynamic \/ NeedsDynamic(check_url_for_models_static(url, patterns, st))
    THEN DynamicOutcomes
    ELSE {[kind |-> "text", text |-> {}]}

\* a loop body that records nothing for a URL whose fetch failed
StoreScanSkipsErrors(scan, url, res) ==
    IF IsError(res) THEN scan
    ELSE [u \in DOMAIN scan \cup {url} |-> IF u = url THEN res.found ELSE scan[u]]

\* the body of main's for loop: current_scan[url] = [] or found
StoreScan(scan, url, res) ==
    LET entry == IF IsError(res) THEN <<>> ELSE res.found
    IN  [u \in DOMAIN scan \cup {url} |-> IF u = url THEN entry ELSE scan[u]]

\* ---------------------------------------------------------------- state store
\* load_state: [state, warned, raised].  A file that cannot be opened (IOError)
\* or is not JSON (JSONDecodeError) gives None with a warning; one that is not
\* UTF-8 raises UnicodeDecodeError, which the except clause does not name.
load_state(file, readable) ==
    IF file.kind = "missing" THEN [state |-> None, warned |-> FALSE, raised |-> FALSE]
    ELSE IF ~readable THEN [state |-> None, warned |-> TRUE, raised |-> FALSE]
    ELSE IF file.kind = "valid"
    THEN [state |-> StateOf(file.results), warned |-> FALSE, raised |-> FALSE]
    ELSE IF file.kind = "undecodable"
    THEN [state |-> None, warned |-> FALSE, raised |-> TRUE]
    ELSE [state |-> None, warned |-> TRUE, raised |-> FALSE]

\* ---------------------------------------------------------------- reconciler
\* a merge that drops nothing before the union
RescannedNone(models) == {}

\* rescanned = set(cli_models)
Rescanned(models) == Range(models)

\* a merge that starts from an empty mapping
MergeBaseEmpty(old) == EmptyMap

\* merged_results = old_results.copy()
MergeBase(old) == old

\* a merge with `prev ^= rescanned` where the code has `prev -= rescanned`
PrevToggled(merged, url, rescanned) ==
    LET prev == Range(Get(merged, url, <<>>))
    IN  (prev \ rescanned) \cup (rescanned \ prev)

\* a merge that overwrites the URL's set with the current scan
PrevCleared(merged, url, rescanned) == {}

\* prev = set(merged_results.get(url, [])); prev -= rescanned
Prev(merged, url, rescanned) == Range(Get(merged, url, <<>>)) \ rescanned

\* a merge that keeps the current scan only
MergeScanOnly(old, scan, models) ==
    [u \in DOMAIN scan |-> sorted(Range(scan[u]))]

\* a merge that leaves a URL alone when its scan found nothing
MergeSkipsEmpty(old, scan, models) ==
    LET base == MergeBase(old)
        rescanned == Rescanned(models)
    IN  [u \in DOMAIN base \cup DOMAIN scan |->
            IF u \in DOMAIN scan /\ (scan[u] # <<>> \/ u \notin DOMAIN base)
            THEN sorted(Prev(base, u, rescanned) \cup Range(scan[u]))
            ELSE base[u]]

Merge(old, scan, models) ==
    LET base == MergeBase(old)
        rescanned == Rescanned(models)
    IN  [u \in DOMAIN base \cup DOMAIN scan |->
            IF u \in DOMAIN scan
            THEN sorted(Prev(base, u, rescanned) \cup Range(scan[u]))
            ELSE base[u]]

\* ---------------------------------------------------------------- differ
\* a differ without the first-run short cut: no state counts as an empty one
compare_statesNoFirstRun(old, new_results) ==
    [first_run |-> FALSE,
     new_urls |-> DOMAIN new_results \ DOMAIN old.results,
     removed_urls |-> DOMAIN old.results \ DOMAIN new_results,
     model_changes |->
        [u \in {v \in DOMAIN old.results \cap DOMAIN new_results :
                    Range(old.results[v]) # Range(new_results[v])} |->
            [added |-> Range(new_results[u]) \ Range(old.results[u]),
             removed |-> Range(old.results[u]) \ Range(new_results[u])]]]

\* a differ without the `if added_models or removed_models` test
compare_statesAllCommon(old, new_results) ==
    IF old.isNone
    THEN [first_run |-> TRUE,
          new_urls |-> DOMAIN new_results,
          removed_urls |-> {},
          model_changes |-> [u \in {} |-> [added |-> {}, removed |-> {}]]]
    ELSE [first_run |-> FALSE,
          new_urls |-> DOMAIN new_results \ DOMAIN old.results,
          removed_urls |-> DOMAIN old.results \ DOMAIN new_results,
          model_changes |->
            [u \in DOMAIN old.results \cap DOMAIN new_results |->
                [added |-> Range(new_results[u]) \ Range(old.results[u]),
                 removed |-> Range(old.results[u]) \ Range(new_results[u])]]]

compare_states(old, new_results) ==
    IF old.isNone
    THEN [first_run |-> TRUE,
          new_urls |-> DOMAIN new_results,
          removed_urls |-> {},
          model_changes |-> [u \in {} |-> [added |-> {}, removed |-> {}]]]
    ELSE LET oldr == old.results
             old_urls == DOMAIN oldr
             new_urls == DOMAIN new_results
             added(u) == Range(new_results[u]) \ Range(oldr[u])
             removed(u) == Range(oldr[u]) \ Range(new_results[u])
             changed == {u \in old_urls \cap new_urls : added(u) # {} \/ removed(u) # {}}
         IN  [first_run |-> FALSE,
              new_urls |-> new_urls \ old_urls,
              removed_urls |-> old_urls \ new_urls,
              model_changes |->
                  [u \in changed |-> [added |-> added(u), removed |-> removed(u)]]]

\* ---------------------------------------------------------------- reporter
\* a reporter that prints every section, empty or not
print_changesAllSections(c) ==
    IF c.first_run
    THEN <<[line |-> "=== FIRST RUN ===", urls |-> c.new_urls]>>
    ELSE <<[line |-> "=== CHANGES SINCE LAST RUN ===", urls |-> {}],
           [line |-> "NEW URLs", urls |-> c.new_urls],
           [line |-> "REMOVED URLs", urls |-> c.removed_urls],
           [line |-> "MODEL CHANGES", urls |-> DOMAIN c.model_changes]>>

\* print_changes: the section headings printed, each with the URLs listed under it
print_changes(c) ==
    IF c.first_run
    THEN <<[line |-> "=== FIRST RUN ===", urls |-> c.new_urls]>>
    ELSE LET head == <<[line |-> "=== CHANGES SINCE LAST RUN ===", urls |-> {}]>>
             new == IF c.new_urls # {}
                    THEN <<[line |-> "NEW URLs", urls |-> c.new_urls]>> ELSE <<>>
             removed == IF c.removed_urls # {}
                        THEN <<[line |-> "REMOVED URLs", urls |-> c.removed_urls]>>
                        ELSE <<>>
             models == IF DOMAIN c.model_changes # {}
                       THEN <<[line |-> "MODEL CHANGES", urls |-> DOMAIN c.model_changes]>>
                       ELSE <<>>
             has_changes == new \o removed \o models # <<>>
         IN  head \o new \o removed \o models
                 \o (IF has_changes THEN <<>>
                     ELSE <<[line |-> "No changes detected.", urls |-> {}]>>)

\* ---------------------------------------------------------------- a run
Ended == pc \in {"idle", "done", "aborted", "crashed", "stopped"}

\* a check of the arguments that lets an empty model list through
ConfigErrorFolderOnly(models, hasFolder) == ~hasFolder

\* argparse: -m is required; load_leaderboard_urls: RuntimeError when the
\* bookmarks have no 'Leaderboards' folder
ConfigError(models, hasFolder) == models = <<>> \/ ~hasFolder

\* what an interrupted write leaves of the file: a prefix of the JSON text,
\* which may end inside a multi-byte character (ensure_ascii=False)
PartialKinds == {"truncated", "undecodable"}

\* the process is gone: its variables with it
ProcessExit ==
    /\ old_state' = None
    /\ old_results' = EmptyMap
    /\ cli_models' = <<>>
    /\ model_patterns' = <<>>
    /\ dynamic' = FALSE
    /\ urls' = <<>>
    /\ idx' = 1
    /\ current_scan' = EmptyMap
    /\ attempts' = <<>>
    /\ errorLines' = {}
    /\ merged_results' = EmptyMap
    /\ changes' = NoChanges
    /\ report' = <<>>

\* main up to the for loop: parse_args, load_state, the patterns, the bookmarks
StartRun ==
    /\ Ended
    /\ \E models \in ModelLists, dyn \in BOOLEAN, readable \in BOOLEAN,
          hasFolder \in BOOLEAN, hrefs \in UrlLists :
        LET loaded == load_state(stateFile, readable)
        IN  /\ folderFound' = hasFolder
            /\ IF models = <<>> /\ ConfigError(models, hasFolder)
               THEN \* argparse exits before load_state
                    /\ pc' = "aborted"
                    /\ warnings' = {}
                    /\ ProcessExit
               ELSE IF loaded.raised
               THEN \* the exception of load_state ends main
                    /\ pc' = "crashed"
                    /\ warnings' = {}
                    /\ ProcessExit
               ELSE IF ConfigError(models, hasFolder)
               THEN \* RuntimeError of load_leaderboard_urls ends main
                    /\ pc' = "aborted"
                    /\ warnings' = IF loaded.warned THEN {"load"} ELSE {}
                    /\ ProcessExit
               ELSE /\ pc' = "scan"
                    /\ warnings' = IF loaded.warned THEN {"load"} ELSE {}
                    /\ old_state' = loaded.state
                    /\ old_results' = loaded.state.results
                    /\ cli_models' = models
                    /\ model_patterns' = DictKeys(models)
                    /\ dynamic' = dyn
                    /\ urls' = IF hasFolder THEN hrefs ELSE <<>>
                    /\ idx' = 1
                    /\ current_scan' = EmptyMap
                    /\ attempts' = <<>>
                    /\ errorLines' = {}
                    /\ merged_results' = EmptyMap
                    /\ changes' = NoChanges
                    /\ report' = <<>>
    /\ UNCHANGED <<stateFile, openBrowsers, patternVars>>

\* one iteration of the for loop
CheckUrl ==
    /\ pc = "scan"
    /\ idx <= Len(urls)
    /\ \E st \in StaticOutcomes :
       \E dy \in DynamicFor(urls[idx], model_patterns, dynamic, st) :
        LET call == check_url_for_models(urls[idx], model_patterns, dynamic,
                                         st, dy, openBrowsers)
        IN  /\ attempts' = call.log
            /\ openBrowsers' = call.open
            /\ current_scan' = StoreScan(current_scan, urls[idx], call.res)
            /\ errorLines' = IF IsError(call.res) THEN errorLines \cup {urls[idx]}
                              ELSE errorLines
    /\ idx' = idx + 1
    /\ UNCHANGED <<stateFile, pc, old_state, old_results, cli_models, model_patterns,
                   dynamic, urls, merged_results, changes, warnings, report,
                   folderFound, patternVars>>

\* after the loop: merge, compare_states, print_changes
Reconcile ==
    /\ pc = "scan"
    /\ idx > Len(urls)
    /\ merged_results' = Merge(old_results, current_scan, cli_models)
    /\ changes' = compare_states(old_state, merged_results')
    /\ report' = print_changes(changes')
    /\ attempts' = <<>>
    /\ pc' = "save"
    /\ UNCHANGED <<stateFile, old_state, old_results, cli_models, model_patterns,
                   dynamic, urls, idx, current_scan, errorLines, openBrowsers,
                   warnings, folderFound, patternVars>>

\* save_state: open(filename, "w") truncates the file
SaveOpen ==
    /\ pc = "save"
    /\ stateFile' = [kind |-> "truncated", results |-> EmptyMap]
    /\ pc' = "saving"
    /\ UNCHANGED <<old_state, old_results, cli_models, model_patterns, dynamic, urls, idx,
                   current_scan, attempts, errorLines, openBrowsers, merged_results,
                   changes, warnings, report, folderFound, patternVars>>

\* save_state: open raises IOError; the warning is printed, main returns
SaveOpenFails ==
    /\ pc = "save"
    /\ warnings' = warnings \cup {"save"}
    /\ pc' = "done"
    /\ ProcessExit
    /\ UNCHANGED <<stateFile, openBrowsers, folderFound, patternVars>>

\* save_state: json.dump and the close of the file go through, main returns
SaveWrite ==
    /\ pc = "saving"
    /\ stateFile' = [kind |-> "valid", results |-> merged_results]
    /\ pc' = "done"
    /\ ProcessExit
    /\ UNCHANGED <<openBrowsers, warnings, folderFound, patternVars>>

\* save_state: json.dump or the close raises IOError (disk full), main returns
SaveWriteFails ==
    /\ pc = "saving"
    /\ \E k \in PartialKinds : stateFile' = [kind |-> k, results |-> EmptyMap]
    /\ warnings' = warnings \cup {"save"}
    /\ pc' = "done"
    /\ ProcessExit
    /\ UNCHANGED <<openBrowsers, folderFound, patternVars>>

\* the process is stopped between the open and the close of the state file
ProcessStops ==
    /\ pc = "saving"
    /\ \E k \in PartialKinds : stateFile' = [kind |-> k, results |-> EmptyMap]
    /\ pc' = "stopped"
    /\ ProcessExit
    /\ UNCHANGED <<openBrowsers, warnings, folderFound, patternVars>>

Next ==
    \/ StartRun
    \/ CheckUrl
    \/ Reconcile
    \/ SaveOpen
    \/ SaveOpenFails
    \/ SaveWrite
    \/ SaveWriteFails
    \/ ProcessStops

Spec == Init /\ [][Next]_vars

\* ---------------------------------------------------------------- the differ alone
\* URL -> list of model names, as compare_states may be handed
ResultMaps == UNION {[D -> SeqsOf(Models, 0, MaxModels)] : D \in SUBSET Urls}

InitCompare ==
    /\ pc = "compare"
    /\ old_state \in {None} \cup {StateOf(r) : r \in ResultMaps}
    /\ merged_results \in ResultMaps
    /\ changes = NoChanges
    /\ stateFile = [kind |-> "missing", results |-> EmptyMap]
    /\ old_results = EmptyMap
    /\ cli_models = <<>>
    /\ model_patterns = <<>>
    /\ dynamic = FALSE
    /\ urls = <<>>
    /\ idx = 1
    /\ current_scan = EmptyMap
    /\ attempts = <<>>
    /\ errorLines = {}
    /\ openBrowsers = 0
    /\ warnings = {}
    /\ report = <<>>
    /\ folderFound = TRUE
    /\ PatternIdle

\* changes = compare_states(old_state, merged_results)
Compare ==
    /\ pc = "compare"
    /\ changes' = compare_states(old_state, merged_results)
    /\ report' = print_changes(changes')
    /\ pc' = "compared"
    /\ UNCHANGED <<stateFile, old_state, old_results, cli_models, model_patterns,
                   dynamic, urls, idx, current_scan, attempts, errorLines,
                   openBrowsers, merged_results, warnings, folderFound, patternVars>>

SpecCompare == InitCompare /\ [][Compare]_vars

\* ---------------------------------------------------------------- the merge alone
\* accumulated results as main stores them: sorted lists without duplicates
AccumulatedMaps ==
    UNION {[D -> {sorted(S) : S \in SUBSET Models}] : D \in SUBSET Urls}

\* the scans a run with these -m options can end with
ScanMapsFor(models) ==
    UNION {[D -> {FoundModels(DictKeys(models), t) : t \in SUBSET Models}] :
            D \in SUBSET Urls}

InitMerge ==
    /\ pc = "merge"
    /\ old_results \in AccumulatedMaps
    /\ cli_models \in ModelLists \ {<<>>}
    /\ current_scan \in ScanMapsFor(cli_models)
    /\ merged_results = EmptyMap
    /\ old_state = None
    /\ changes = NoChanges
    /\ stateFile = [kind |-> "missing", results |-> EmptyMap]
    /\ model_patterns = <<>>
    /\ dynamic = FALSE
    /\ urls = <<>>
    /\ idx = 1
    /\ attempts = <<>>
    /\ errorLines = {}
    /\ openBrowsers = 0
    /\ warnings = {}
    /\ report = <<>>
    /\ folderFound = TRUE
    /\ PatternIdle

\* the merge of main, its result kept in merged_results
MergeOnce ==
    /\ pc = "merge"
    /\ merged_results' = Merge(old_results, current_scan, cli_models)
    /\ pc' = "merged"
    /\ UNCHANGED <<stateFile, old_state, old_results, cli_models, model_patterns,
                   dynamic, urls, idx, current_scan, attempts, errorLines,
                   openBrowsers, changes, warnings, report, folderFound, patternVars>>

\* the same scan merged into the result of the first merge, which becomes the
\* accumulated state
MergeAgain ==
    /\ pc = "merged"
    /\ old_results' = merged_results
    /\ merged_results' = Merge(merged_results, current_scan, cli_models)
    /\ pc' = "merged twice"
    /\ UNCHANGED <<stateFile, old_state, cli_models, model_patterns,
                   dynamic, urls, idx, current_scan, attempts, errorLines,
                   openBrowsers, changes, warnings, report, folderFound, patternVars>>

NextMerge ==
    \/ MergeOnce
    \/ MergeAgain

SpecMerge == InitMerge /\ [][NextMerge]_vars

\* ------------------------------------------------------------- build_pattern
\* Texts are sequences of characters. A model name is made of two letters, in
\* either case, spaces and dashes; a text may also have the letter "o".
MaxNameLen == 4

NameChars == {"a", "B", " ", "-"}
Seps == {" ", "-"}
Letters == {"a", "A", "b", "B", "o", "O"}
ModelNames == SeqsOf(NameChars, 1, MaxNameLen)

\* str.lower and str.upper on one character
Lower(c) == CASE c = "A" -> "a" [] c = "B" -> "b" [] c = "O" -> "o" [] OTHER -> c
Upper(c) == CASE c = "a" -> "A" [] c = "b" -> "B" [] c = "o" -> "O" [] OTHER -> c
SwapCase(c) == IF Lower(c) = c THEN Upper(c) ELSE Lower(c)

\* model_name.strip(): the spaces at both ends removed
RECURSIVE strip(_)
strip(s) ==
    IF s = <<>> THEN s
    ELSE IF Head(s) = " " THEN strip(Tail(s))
    ELSE IF s[Len(s)] = " " THEN strip(SubSeq(s, 1, Len(s) - 1))
    ELSE s

\* re.split(r"[ -]+", s) from character i on: cur is the part being read,
\* inSep says that the character before was a separator of the same run
RECURSIVE SplitFrom(_, _, _, _)
SplitFrom(s, i, cur, inSep) ==
    IF i > Len(s) THEN <<cur>>
    ELSE IF s[i] \in Seps
         THEN IF inSep THEN SplitFrom(s, i + 1, cur, TRUE)
              ELSE <<cur>> \o SplitFrom(s, i + 1, <<>>, TRUE)
         ELSE SplitFrom(s, i + 1, Append(cur, s[i]), FALSE)

split(s) == SplitFrom(s, 1, <<>>, FALSE)

\* the words of a model name
parts(model_name) == split(strip(model_name))

\* one escaped character of the regex, and the optional dash or space
Lit(c) == [kind |-> "lit", c |-> c]
OptSep == [kind |-> "optsep", c |-> ""]

escaped(p) == [k \in 1..Len(p) |-> Lit(p[k])]

\* r"[- ]?".join(escaped)
RECURSIVE join(_, _)
join(sep, list) ==
    IF list = <<>> THEN <<>>
    ELSE IF Len(list) = 1 THEN list[1]
    ELSE list[1] \o sep \o join(sep, Tail(list))

\* the compiled regex, as the sequence of its elements
build_pattern(model_name) ==
    LET ps == parts(model_name)
    IN  join(<<OptSep>>, [k \in 1..Len(ps) |-> escaped(ps[k])])

\* the elements of the pattern from i on match the text from position j on;
\* re.IGNORECASE compares letters without their case
RECURSIVE MatchAt(_, _, _, _)
MatchAt(pattern, text, i, j) ==
    IF i > Len(pattern) THEN TRUE
    ELSE IF pattern[i].kind = "lit"
         THEN /\ j <= Len(text)
              /\ Lower(text[j]) = Lower(pattern[i].c)
              /\ MatchAt(pattern, text, i + 1, j + 1)
         ELSE \/ /\ j <= Len(text)
                 /\ text[j] \in Seps
                 /\ MatchAt(pattern, text, i + 1, j + 1)
              \/ MatchAt(pattern, text, i + 1, j)

\* pattern.search(text): a match that starts anywhere in the text
search(pattern, text) == \E j \in 1..(Len(text) + 1) : MatchAt(pattern, text, 1, j)

Recase(how, text) ==
    [k \in 1..Len(text) |->
        CASE how = "lower" -> Lower(text[k])
          [] how = "upper" -> Upper(text[k])
          [] how = "swap" -> SwapCase(text[k])
          [] OTHER -> text[k]]

Recasings == {"same", "lower", "upper", "swap"}
Joiners == {<<>>, <<" ">>, <<"-">>}
Contexts == {<<>>, <<"o">>, <<"o", " ">>}

\* the words of a name with one character of word w replaced by c
Substituted(ps, w, k, c) == [ps EXCEPT ![w] = [ps[w] EXCEPT ![k] = c]]
\* the words of a name with c added at the end of word w
Extended(ps, w, c) == [ps EXCEPT ![w] = Append(ps[w], c)]

InitPattern ==
    /\ pat_name \in ModelNames
    /\ pat_text = <<>>
    /\ pat_kind = "none"
    /\ pat_match = FALSE
    /\ pc = "pattern"
    /\ old_results = EmptyMap
    /\ cli_models = <<>>
    /\ current_scan = EmptyMap
    /\ merged_results = EmptyMap
    /\ old_state = None
    /\ changes = NoChanges
    /\ stateFile = [kind |-> "missing", results |-> EmptyMap]
    /\ model_patterns = <<>>
    /\ dynamic = FALSE
    /\ urls = <<>>
    /\ idx = 1
    /\ attempts = <<>>
    /\ errorLines = {}
    /\ openBrowsers = 0
    /\ warnings = {}
    /\ report = <<>>
    /\ folderFound = TRUE

SearchIn(kind, text) ==
    /\ pat_kind' = kind
    /\ pat_text' = text
    /\ pat_match' = search(build_pattern(pat_name), text)
    /\ pc' = "searched"
    /\ UNCHANGED <<pat_name, stateFile, old_state, old_results, cli_models,
                   model_patterns, dynamic, urls, idx, current_scan, attempts,
                   errorLines, openBrowsers, merged_results, changes, warnings,
                   report, folderFound>>

\* the pattern of the name is searched in a text that contains the words of
\* the name joined by a space, a dash or nothing, in some letter case
SearchJoined ==
    /\ pc = "pattern"
    /\ \E sep \in Joiners, how \in Recasings, before \in Contexts, after \in Contexts :
        SearchIn("joined",
                 before \o Recase(how, join(sep, parts(pat_name))) \o after)

\* the same with one character of one word replaced by another letter
SearchSubstituted ==
    /\ pc = "pattern"
    /\ LET ps == parts(pat_name)
       IN  \E sep \in Joiners, how \in Recasings, w \in 1..Len(ps) :
           \E k \in 1..Len(ps[w]) :
           \E c \in {l \in Letters : Lower(l) # Lower(ps[w][k])} :
               SearchIn("substituted",
                        Recase(how, join(sep, Substituted(ps, w, k, c))))

\* the same with one word made longer by a letter
SearchExtended ==
    /\ pc = "pattern"
    /\ LET ps == parts(pat_name)
       IN  \E sep \in Joiners, how \in Recasings, w \in 1..Len(ps), c \in Letters :
               /\ ps[w] # <<>>
               /\ SearchIn("extended", Recase(how, join(sep, Extended(ps, w, c))))

NextPattern ==
    \/ SearchJoined
    \/ SearchSubstituted
    \/ SearchExtended

SpecPattern == InitPattern /\ [][NextPattern]_vars

\* ---------------------------------------------------------------- properties
\* the models of a URL in a mapping; none when the URL has no entry
ModelsAt(results, u) == Range(Get(results, u, <<>>))

Merged == pc \in {"save", "saving"}

\* C1: after the merge of a run, for every URL of the run's list and every
\* requested model, the model is in the URL's merged set exactly when the
\* run's scan of the URL found it; an accumulated model that is requested and
\* no longer found is gone.
C1_RescannedReflectScan ==
    Merged =>
        \A u \in Range(urls) : \A m \in Range(cli_models) :
            m \in ModelsAt(merged_results, u) <=> m \in ModelsAt(current_scan, u)

\* a stale positive: accumulated before, requested, not found now, dropped
C1_Witness ==
    /\ Merged
    /\ \E u \in Range(urls) : \E m \in Range(cli_models) :
        /\ m \in ModelsAt(old_results, u)
        /\ m \notin ModelsAt(current_scan, u)
        /\ m \notin ModelsAt(merged_results, u)

\* C2: after the merge of a run, for every URL and every model that was not
\* requested, the model is in the URL's merged set exactly when it was in the
\* URL's prior accumulated set; the scan not finding it removes nothing.
C2_NonInterference ==
    Merged =>
        \A u \in Urls : \A m \in Models \ Range(cli_models) :
            m \in ModelsAt(merged_results, u) <=> m \in ModelsAt(old_results, u)

\* an unrequested model of a rescanned URL, absent from the scan, is kept
C2_Witness ==
    /\ Merged
    /\ \E u \in Range(urls) : \E m \in Models \ Range(cli_models) :
        /\ m \in ModelsAt(old_results, u)
        /\ m \notin ModelsAt(current_scan, u)
        /\ m \in ModelsAt(merged_results, u)

\* C3: the state a run persists gives every URL of the prior accumulated
\* state that is not in the run's URL list exactly its prior model list.
C3_UnscannedUrlsKept ==
    [][(pc = "saving" /\ stateFile'.kind = "valid") =>
        \A u \in DOMAIN old_results \ Range(urls) :
            /\ u \in DOMAIN stateFile'.results
            /\ stateFile'.results[u] = old_results[u]]_vars

\* a URL with accumulated models is not rescanned and is about to be persisted
C3_Witness ==
    /\ pc = "saving"
    /\ \E u \in DOMAIN old_results \ Range(urls) :
        /\ old_results[u] # <<>>
        /\ u \in DOMAIN merged_results
        /\ merged_results[u] = old_results[u]
    /\ urls # <<>>

\* the call of check_url_for_models of the latest loop iteration
Called == pc = "scan" /\ attempts # <<>>
LastUrl == urls[idx - 1]
LastFetch == attempts[Len(attempts)]
Modes == [i \in DOMAIN attempts |-> attempts[i].mode]
\* what main stores for a result
Entry(res) == IF IsError(res) THEN <<>> ELSE res.found

\* C4: a call of check_url_for_models with dynamic forced makes one dynamic
\* fetch and no static one; otherwise it makes one static fetch first, and one
\* dynamic fetch after it exactly when the static one failed or found nothing;
\* a static fetch that found a model is the result of the call.
C4_FetchOrder ==
    Called =>
        IF dynamic THEN Modes = <<"dynamic">>
        ELSE /\ Modes \in {<<"static">>, <<"static", "dynamic">>}
             /\ Len(attempts) = 2 <=>
                    (IsError(attempts[1].res) \/ attempts[1].res.found = <<>>)
             /\ Len(attempts) = 1 =>
                    /\ attempts[1].res.found # <<>>
                    /\ current_scan[LastUrl] = attempts[1].res.found

\* an unforced call whose static fetch succeeded with no match went dynamic
C4_Witness ==
    /\ Called
    /\ ~dynamic
    /\ Modes = <<"static", "dynamic">>
    /\ ~IsError(attempts[1].res)
    /\ attempts[1].res.found = <<>>

\* C5: when dynamic is not forced and the static fetch succeeds with no match,
\* the URL's entry in the scan is the result of the dynamic fetch, and every
\* model of a scan entry is in the URL's merged set after the run.
C5_FallbackResultUsed ==
    /\ (Called /\ ~dynamic /\ Len(attempts) = 2 /\ ~IsError(attempts[1].res)) =>
            current_scan[LastUrl] = Entry(attempts[2].res)
    /\ Merged =>
            \A u \in DOMAIN current_scan :
                Range(current_scan[u]) \subseteq ModelsAt(merged_results, u)

\* the static fetch matched nothing, the dynamic one found a model, and the
\* model is in the scan
C5_Witness ==
    /\ Called
    /\ ~dynamic
    /\ Len(attempts) = 2
    /\ ~IsError(attempts[1].res)
    /\ ~IsError(attempts[2].res)
    /\ attempts[2].res.found # <<>>
    /\ current_scan[LastUrl] = attempts[2].res.found

\* C6: whatever fetches fail, the loop handles the URLs of the list one by one
\* in order and goes on to the merge: the scan has an entry for every URL
\* handled so far, for every URL of the list once the loop is over, and the
\* entry stored for a fetch that ended in an error is the empty list.
C6_ScanState ==
    /\ pc = "scan" =>
        /\ idx \in 1..(Len(urls) + 1)
        /\ DOMAIN current_scan = {urls[i] : i \in 1..(idx - 1)}
    /\ Merged =>
        /\ idx = Len(urls) + 1
        /\ DOMAIN current_scan = Range(urls)
    /\ errorLines \subseteq DOMAIN current_scan
    /\ (Called /\ IsError(LastFetch.res)) =>
        /\ LastUrl \in errorLines
        /\ current_scan[LastUrl] = <<>>

C6_ErrorsLocalized ==
    /\ []C6_ScanState
    /\ [][pc = "scan" =>
            \/ pc' = "scan" /\ idx' = idx + 1 /\ idx <= Len(urls)
            \/ pc' = "save" /\ idx = Len(urls) + 1]_vars

\* a run of two URLs, one of them failed, has reached the merge
C6_Witness ==
    /\ Merged
    /\ Cardinality(Range(urls)) = 2
    /\ errorLines # {}
    /\ errorLines # Range(urls)
    /\ DOMAIN current_scan = Range(urls)

C8_AtomicSave == Ended => stateFile.kind \in {"missing", "valid"}

\* C9: for an old state that exists, compare_states returns first_run false,
\* new_urls the URLs only in the new results, removed_urls the URLs only in the
\* old results, and a model_changes entry exactly for the URLs in both whose
\* model sets differ, holding added = new - old and removed = old - new.
C9_CompareStates ==
    (pc = "compared" /\ ~old_state.isNone) =>
        LET oldr == old_state.results
            newr == merged_results
            both == {u \in Urls : u \in DOMAIN oldr /\ u \in DOMAIN newr}
        IN  /\ changes.first_run = FALSE
            /\ \A u \in Urls :
                /\ u \in changes.new_urls <=> (u \in DOMAIN newr /\ u \notin DOMAIN oldr)
                /\ u \in changes.removed_urls <=> (u \in DOMAIN oldr /\ u \notin DOMAIN newr)
                /\ u \in DOMAIN changes.model_changes <=>
                        (u \in both /\ Range(oldr[u]) # Range(newr[u]))
            /\ changes.new_urls \cup changes.removed_urls
                    \cup DOMAIN changes.model_changes \subseteq Urls
            /\ \A u \in DOMAIN changes.model_changes : \A m \in Models :
                /\ m \in changes.model_changes[u].added <=>
                        (m \in Range(newr[u]) /\ m \notin Range(oldr[u]))
                /\ m \in changes.model_changes[u].removed <=>
                        (m \in Range(oldr[u]) /\ m \notin Range(newr[u]))
            /\ \A u \in DOMAIN changes.model_changes :
                changes.model_changes[u].added \cup changes.model_changes[u].removed
                    \subseteq Models

\* a URL was dropped, and a URL in both has a model added and a model removed
C9_Witness ==
    /\ pc = "compared"
    /\ ~old_state.isNone
    /\ changes.removed_urls # {}
    /\ \E u \in DOMAIN old_state.results \cap DOMAIN merged_results :
        /\ u \in DOMAIN changes.model_changes
        /\ changes.model_changes[u].added # {}
        /\ changes.model_changes[u].removed # {}

\* C10: on a run without a prior state the ChangeSet is first_run with every
\* URL of the merged results as new and nothing removed or changed, the merged
\* results hold for every scanned URL (and no other) exactly the models the
\* run's scan found there, and that is what save_state writes.
C10_State ==
    (Merged /\ old_state.isNone) =>
        /\ changes.first_run = TRUE
        /\ changes.new_urls = DOMAIN merged_results
        /\ changes.removed_urls = {}
        /\ DOMAIN changes.model_changes = {}
        /\ DOMAIN merged_results = Range(urls)
        /\ \A u \in DOMAIN merged_results :
            /\ Range(merged_results[u]) = Range(current_scan[u])
            /\ Len(merged_results[u]) = Cardinality(Range(current_scan[u]))

C10_FirstRun ==
    /\ []C10_State
    /\ [][(pc = "saving" /\ old_state.isNone /\ stateFile'.kind = "valid") =>
            stateFile'.results = merged_results]_vars

\* a first run over two URLs: one with a model found, one with none
C10_Witness ==
    /\ pc = "saving"
    /\ old_state.isNone
    /\ changes.first_run
    /\ \E u, v \in Range(urls) :
        /\ merged_results[u] # <<>>
        /\ merged_results[v] = <<>>
        /\ current_scan[v] = <<>>

\* C11: compare_states on an old state and new results equal to the old
\* state's results gives first_run false and empty new_urls, removed_urls and
\* model_changes, and print_changes reports that no changes were detected.
C11_DiffOfSame ==
    (pc = "compared" /\ ~old_state.isNone /\ merged_results = old_state.results) =>
        /\ changes.first_run = FALSE
        /\ changes.new_urls = {}
        /\ changes.removed_urls = {}
        /\ DOMAIN changes.model_changes = {}
        /\ report = <<[line |-> "=== CHANGES SINCE LAST RUN ===", urls |-> {}],
                      [line |-> "No changes detected.", urls |-> {}]>>

\* a state with a URL that has models was compared with itself
C11_Witness ==
    /\ pc = "compared"
    /\ ~old_state.isNone
    /\ merged_results = old_state.results
    /\ \E u \in DOMAIN merged_results : merged_results[u] # <<>>
    /\ Len(report) = 2

\* C12: merging a scan into an accumulated state and then merging the same
\* scan, with the same requested models, into the result gives the result of
\* the first merge.
C12_MergeIdempotent == pc = "merged twice" => merged_results = old_results

\* merged twice: a URL holds a model of the scan next to one that was not
\* requested, and a rescanned URL holds nothing
C12_Witness ==
    /\ pc = "merged twice"
    /\ merged_results = old_results
    /\ \E u, v \in DOMAIN current_scan :
        /\ current_scan[u] # <<>>
        /\ Range(merged_results[u]) \ Range(cli_models) # {}
        /\ merged_results[v] = <<>>

NoDuplicates(list) == Cardinality(Range(list)) = Len(list)
AllNoDuplicates(results) == \A u \in DOMAIN results : NoDuplicates(results[u])

\* C13: in every run of a sequence that starts without a state file, no
\* per-URL list of the scan, of the loaded or merged results or of the state
\* file names a model twice, also when a model is requested twice.
C13_NoDuplicates ==
    /\ AllNoDuplicates(current_scan)
    /\ AllNoDuplicates(old_results)
    /\ AllNoDuplicates(merged_results)
    /\ AllNoDuplicates(stateFile.results)

\* a model requested twice was found: it is once in the scan and once in the
\* merged results
C13_Witness ==
    /\ Merged
    /\ ~NoDuplicates(cli_models)
    /\ \E u \in DOMAIN current_scan :
        /\ current_scan[u] # <<>>
        /\ Range(current_scan[u]) = Range(cli_models)
        /\ merged_results[u] # <<>>

\* C14: a state file that is missing, cannot be read or is malformed when a
\* run starts does not end the run: the run goes on with no prior state and
\* empty prior results, and its ChangeSet is a first run.
C14_BadStateFileNotFatal ==
    /\ pc # "crashed"
    /\ (pc \in {"scan", "save", "saving"} /\ "load" \in warnings) =>
            (old_state.isNone /\ old_results = EmptyMap)
    /\ (Merged /\ old_state.isNone) => changes.first_run

\* C15: a run whose bookmarks lack the Leaderboards folder, or that is given
\* no model name, never gets to the fetch loop; the step that aborts a run is
\* the first step of the run and leaves the state file as it was.
C15_State ==
    /\ pc \in {"scan", "save", "saving"} => (folderFound /\ cli_models # <<>>)
    /\ ~folderFound => pc \in {"aborted", "crashed"}

C15_ConfigErrorAborts ==
    /\ []C15_State
    /\ [][pc' = "aborted" =>
            /\ Ended
            /\ stateFile' = stateFile
            /\ attempts' = <<>>
            /\ current_scan' = EmptyMap]_vars

\* a run was aborted for the missing folder and the state file still holds
\* the accumulated models
C15_Witness ==
    /\ pc = "aborted"
    /\ ~folderFound
    /\ stateFile.kind = "valid"
    /\ \E u \in DOMAIN stateFile.results : stateFile.results[u] # <<>>

\* C16 as stated: after the merge of a run, a model that was in a URL's
\* accumulated set and was not requested is no longer in the URL's set.
C16_OmittedDiscarded ==
    Merged =>
        \A u \in Urls : \A m \in Models \ Range(cli_models) :
            m \in ModelsAt(old_results, u) => m \notin ModelsAt(merged_results, u)

\* C16, amended: the state a run persists still holds, for every URL, every
\* model of the URL's accumulated set that the run did not request.
C16_OmittedKept ==
    [][(pc = "saving" /\ stateFile'.kind = "valid") =>
        \A u \in DOMAIN old_results : \A m \in Range(old_results[u]) \ Range(cli_models) :
            /\ u \in DOMAIN stateFile'.results
            /\ m \in Range(stateFile'.results[u])]_vars

\* a rescanned URL is about to be persisted with a model the run did not request
C16_Witness ==
    /\ pc = "saving"
    /\ \E u \in Range(urls) : \E m \in Models \ Range(cli_models) :
        /\ m \in ModelsAt(old_results, u)
        /\ m \in ModelsAt(merged_results, u)
        /\ Range(cli_models) \cap ModelsAt(old_results, u) # {}

\* C18: the merged results of a run have every URL of the results the run
\* loaded, the results loaded are the results of the file and the file
\* written has every URL of the results loaded, so a persisted URL stays
\* persisted; no ChangeSet has a removed URL.
C18_State ==
    /\ changes.removed_urls = {}
    /\ Merged => DOMAIN old_results \subseteq DOMAIN merged_results

C18_UrlsNeverShrink ==
    /\ []C18_State
    /\ [][/\ (Ended /\ pc' = "scan" /\ ~old_state'.isNone) =>
                old_results' = stateFile.results
          /\ (pc = "saving" /\ stateFile'.kind = "valid") =>
                DOMAIN old_results \subseteq DOMAIN stateFile'.results]_vars

\* a URL that is no longer in the bookmarks is written back with its models
C18_Witness ==
    /\ pc = "saving"
    /\ ~old_state.isNone
    /\ changes.removed_urls = {}
    /\ \E u \in DOMAIN old_results \ Range(urls) :
        /\ u \in DOMAIN merged_results
        /\ old_results[u] # <<>>

Failed(u) == u \in errorLines /\ Get(current_scan, u, <<>>) = <<>>

\* C19: after the merge of a run in which the fetch of a URL ended in an
\* error, no requested model is in the URL's merged list, every requested
\* model that was in its prior list is among the URL's removed models of the
\* ChangeSet, and the models not requested are in its merged list.
C19_FailureAsNothingFound ==
    Merged =>
        \A u \in Urls : Failed(u) =>
            /\ Range(cli_models) \cap ModelsAt(merged_results, u) = {}
            /\ \A m \in Range(cli_models) \cap ModelsAt(old_results, u) :
                /\ u \in DOMAIN changes.model_changes
                /\ m \in changes.model_changes[u].removed
            /\ ModelsAt(old_results, u) \ Range(cli_models)
                    \subseteq ModelsAt(merged_results, u)

\* the fetch of a URL failed, a requested model of its prior list is reported
\* as removed and a model not requested is kept
C19_Witness ==
    /\ Merged
    /\ \E u \in Urls :
        /\ Failed(u)
        /\ \E m \in Range(cli_models) \cap ModelsAt(old_results, u) :
            /\ u \in DOMAIN changes.model_changes
            /\ m \in changes.model_changes[u].removed
        /\ \E m \in ModelsAt(old_results, u) \ Range(cli_models) :
            m \in ModelsAt(merged_results, u)

C17_JoinedAndSubstituted ==
    /\ pat_kind = "joined" => pat_match
    /\ pat_kind = "substituted" => ~pat_match

====
